---------------------------- MODULE Spec2Model ----------------------------
(***************************************************************************)
(* The DDC/CI brightness backend of SwayOSD                                *)
(* (src/brightness_backend/ddcci.rs): discovery of a monitor (try_new),    *)
(* the device state (current, max) with its bounds-checked write, and the  *)
(* raise / lower / set commands.                                           *)
(*                                                                         *)
(* The transport (ddc_hi) is the environment: what Display::enumerate()    *)
(* returns, what a monitor answers to get_vcp_feature and whether          *)
(* set_vcp_feature succeeds are chosen nondeterministically.               *)
(*                                                                         *)
(* u32 arithmetic: `a * b` on u32 panics on overflow in a build with       *)
(* overflow checks (the dev profile) and wraps modulo 2^32 in a build      *)
(* without (the release profile).  The build is chosen in Init.            *)
(* TLC's integers are 32-bit signed, so a u32 product is carried as two    *)
(* 16-bit limbs [hi, lo] (value hi * 2^16 + lo).                           *)
(***************************************************************************)
EXTENDS Integers, Sequences, FiniteSets, TLC

VARIABLES
    displays,         \* what Display::enumerate() returns (the monitors on the bus)
    device_name,      \* try_new's argument, Option<String>: <<>> is None, <<s>> is Some(s)
    overflow_checks,  \* the build: TRUE = u32 overflow panics, FALSE = it wraps
    pc,               \* "start" | "ready" (a DdcDevice exists) | "failed" (try_new
                      \* returned Err) | "aborted" (the process panicked)
    device,           \* DdcDevice: [current, max]; NoDevice before/without construction
    result,           \* what the last call returned: [kind, device_name, value, msg]
    selected,         \* index in displays of the monitor try_new took (0: none)
    call,             \* the last call: [op, a, b, cur] (cur: current before the call)
    vcp_write         \* the last call's set_vcp_feature: "none" | "ok" | "failed"

vars == <<displays, device_name, overflow_checks, pc, device, result, selected,
          call, vcp_write>>

---------------------------------------------------------------------------
(* Bounds of the model *)

\* longest enumeration of monitors tried in discovery
MaxDisplays == 2

\* largest maximum brightness tried by the round-trip specification
MaxRoundTrip == 310

---------------------------------------------------------------------------
(* Values *)

None == <<>>
Some(s) == <<s>>

Min2(a, b) == IF a <= b THEN a ELSE b
Max2(a, b) == IF a >= b THEN a ELSE b

\* 2^16: one limb of a u32
Limb == 256 * 256

NoDevice == [current |-> 0, max |-> 0]
NoCall == [op |-> "none", a |-> 0, b |-> 0, cur |-> 0]
NoResult == [kind |-> "none", device_name |-> "", value |-> 0, msg |-> ""]

\* Ok(()), Ok(Self)
OkResult == [kind |-> "Ok", device_name |-> "", value |-> 0, msg |-> ""]

\* a returned u32
Returned(v) == [kind |-> "Ok", device_name |-> "", value |-> v, msg |-> ""]

\* Err(DeviceDoesntExistError { device_name })
DeviceDoesntExistError(name) ==
    [kind |-> "DeviceDoesntExistError", device_name |-> name, value |-> 0, msg |-> ""]

\* the error of get_vcp_feature, propagated by `?`
VcpError == [kind |-> "VcpError", device_name |-> "", value |-> 0, msg |-> ""]

\* a panic: the process aborts
Panic(msg) == [kind |-> "panic", device_name |-> "", value |-> 0, msg |-> msg]

\* model names a monitor may report (info.model_name: Option<String>)
ModelNames == {None, Some("A"), Some("B")}

\* names a caller may ask for
RequestedNames == {None, Some("A"), Some("B"), Some("NoSuchModel")}

\* answers of a monitor to get_vcp_feature(0x10): an error, or (value, maximum),
\* two independent u16 fields of the VCP reply
ProbeResponses ==
    { [ok |-> FALSE, value |-> 0, maximum |-> 0],
      [ok |-> TRUE, value |-> 40, maximum |-> 80],
      [ok |-> TRUE, value |-> 50, maximum |-> 100],
      [ok |-> TRUE, value |-> 90, maximum |-> 80],
      [ok |-> TRUE, value |-> 0, maximum |-> 0],
      [ok |-> TRUE, value |-> 128, maximum |-> 255] }

Monitors == [model_name : ModelNames, probe : ProbeResponses]

RECURSIVE SeqsUpTo(_, _)
SeqsUpTo(S, n) ==
    IF n = 0 THEN {<<>>}
    ELSE LET shorter == SeqsUpTo(S, n - 1)
         IN shorter \cup {Append(s, x) : s \in {t \in shorter : Len(t) = n - 1}, x \in S}

---------------------------------------------------------------------------
(* Discovery: DdcDevice::try_new *)

\* Self { display, current: vcp_response.value(), max: vcp_response.maximum() }
NewDevice(resp) == [current |-> resp.value, max |-> resp.maximum]

\* displays.iter().position(|d| d.info.model_name.as_deref() == Some(name)):
\* the first index whose model name is the requested one, 0 when there is none
Position(ds, name) ==
    LET hits == {i \in 1..Len(ds) : ds[i].model_name = name}
    IN IF hits = {} THEN 0 ELSE CHOOSE i \in hits : \A j \in hits : i <= j

\* TryNewNamed with the fallback its NOTE comments consider: when the named
\* monitor is missing or unusable, take the first usable display instead
TryNewNamedFallback(ds, name) ==
    LET n == Position(ds, name)
        usable == {i \in 1..Len(ds) : ds[i].probe.ok}
        first == CHOOSE i \in usable : \A j \in usable : i <= j
    IN IF n # 0 /\ ds[n].probe.ok
       THEN [result |-> OkResult, device |-> NewDevice(ds[n].probe), selected |-> n]
       ELSE IF usable # {}
            THEN [result |-> OkResult, device |-> NewDevice(ds[first].probe),
                  selected |-> first]
            ELSE [result |-> DeviceDoesntExistError(name[1]), device |-> NoDevice,
                  selected |-> 0]

\* the named branch of try_new
TryNewNamed(ds, name) ==
    LET n == Position(ds, name)
    IN IF n # 0
       THEN IF ds[n].probe.ok
            THEN [result |-> OkResult, device |-> NewDevice(ds[n].probe), selected |-> n]
            ELSE [result |-> DeviceDoesntExistError(name[1]), device |-> NoDevice,
                  selected |-> 0]
       ELSE [result |-> DeviceDoesntExistError(name[1]), device |-> NoDevice,
             selected |-> 0]

\* The unnamed branch of try_new: `for i in 0..displays.len()` whose body either
\* leaves the function by `?` (the probe of displays[i] failed) or returns the
\* device built from displays[i]; the loop body therefore runs for i = 0 only.
TryNewLoop(ds, i) ==
    IF i > Len(ds)
    THEN [result |-> DeviceDoesntExistError("N/A"), device |-> NoDevice, selected |-> 0]
    ELSE IF ~ds[i].probe.ok
         THEN [result |-> VcpError, device |-> NoDevice, selected |-> 0]
         ELSE [result |-> OkResult, device |-> NewDevice(ds[i].probe), selected |-> i]

TryNewUnnamed(ds) == TryNewLoop(ds, 1)

try_new(ds, name) ==
    IF name # None THEN TryNewNamed(ds, name) ELSE TryNewUnnamed(ds)

\* the record of a call of try_new
TryNewCall == [op |-> "try_new", a |-> 0, b |-> 0, cur |-> 0]

TryNew ==
    /\ pc = "start"
    /\ LET r == try_new(displays, device_name)
       IN /\ result' = r.result
          /\ device' = r.device
          /\ selected' = r.selected
          /\ pc' = IF r.result.kind = "Ok" THEN "ready" ELSE "failed"
    /\ call' = TryNewCall
    /\ UNCHANGED <<displays, device_name, overflow_checks, vcp_write>>

---------------------------------------------------------------------------
(* u32 arithmetic *)

\* a * b on u32, for a < 2^31 and b < 2^16: the product modulo 2^32 as limbs
\* [hi, lo], and whether the true product exceeds u32::MAX.
\* With a = ah * 2^16 + al and b = bh * 2^8 + bl:
\*   a * b = (ah * b) * 2^16 + (al * bh) * 2^8 + al * bl
mul_u32(a, b) ==
    LET ah == a \div Limb
        al == a % Limb
        bh == b \div 256
        bl == b % 256
        t1 == al * bh
        low == (t1 % 256) * 256 + al * bl
        high == ah * b + (t1 \div 256) + (low \div Limb)
    IN [overflow |-> high >= Limb, hi |-> high % Limb, lo |-> low % Limb]

\* global_utils::div_round_u32(a, b), a given as limbs: a / b rounded half up
\* (spec 4.1, scale).  Long division by limbs; b > 0.
div_round_u32(a, b) ==
    LET qh == a.hi \div b
        m == (a.hi % b) * Limb + a.lo
    IN qh * Limb + (m \div b) + (IF 2 * (m % b) >= b THEN 1 ELSE 0)

\* the expression `div_round_u32(p * max, 100)` of set_percent, lower, raise and
\* set: [overflow, value]
ScaleToRaw(p, max) ==
    LET prod == mul_u32(p, max)
    IN [overflow |-> prod.overflow, value |-> div_round_u32(prod, 100)]

\* u32::saturating_sub
saturating_sub(a, b) == IF b >= a THEN 0 ELSE a - b

\* Ord::clamp(val, lo, hi)
clamp(val, lo, hi) == IF val < lo THEN lo ELSE IF val > hi THEN hi ELSE val

---------------------------------------------------------------------------
(* Device state: get_percent, set_raw, set_percent *)

\* get_percent: div_round_u32(cur * 100, max); cur and max come from u16 fields,
\* so cur * 100 fits a u32.  A division by zero panics.
GetPercent ==
    /\ pc = "ready"
    /\ call' = [op |-> "get_percent", a |-> 0, b |-> 0, cur |-> device.current]
    /\ IF device.max = 0
       THEN /\ pc' = "aborted"
            /\ result' = Panic("attempt to divide by zero")
       ELSE /\ result' = Returned(div_round_u32(mul_u32(100, device.current), device.max))
            /\ UNCHANGED pc
    /\ vcp_write' = "none"
    /\ UNCHANGED <<displays, device_name, overflow_checks, device, selected>>

\* set_raw: clamp to [0, max], write the clamped value to the monitor, and
\* `.expect(..)` the write: a failed write panics.  write_ok is the transport's
\* answer to set_vcp_feature.
set_raw(val, write_ok) ==
    LET clamped_val == clamp(val, 0, device.max)
    IN IF write_ok
       THEN /\ device' = [device EXCEPT !.current = clamped_val]
            /\ result' = OkResult
            /\ vcp_write' = "ok"
            /\ UNCHANGED pc
       ELSE /\ pc' = "aborted"
            /\ result' = Panic("DdcDevice failed to set brightness")
            /\ vcp_write' = "failed"
            /\ UNCHANGED device

\* a u32 overflow in evaluating a call's arguments: a panic in a build with
\* overflow checks
OverflowPanic ==
    /\ pc' = "aborted"
    /\ result' = Panic("attempt to multiply with overflow")
    /\ vcp_write' = "none"
    /\ UNCHANGED device

\* the value a call computes and hands to set_raw, then set_raw
Compute(r, write_ok) ==
    IF r.overflow /\ overflow_checks THEN OverflowPanic ELSE set_raw(r.value, write_ok)

SetRaw(val, write_ok) ==
    /\ pc = "ready"
    /\ call' = [op |-> "set_raw", a |-> val, b |-> 0, cur |-> device.current]
    /\ set_raw(val, write_ok)
    /\ UNCHANGED <<displays, device_name, overflow_checks, selected>>

\* set_percent without the scaling: the clamped percentage written as the raw value
set_percent_unscaled(val, max) == [overflow |-> FALSE, value |-> clamp(val, 0, 100)]

\* set_percent: clamp to [0, 100], scale to raw, set_raw
set_percent_val(val, max) == ScaleToRaw(clamp(val, 0, 100), max)

SetPercent(val, write_ok) ==
    /\ pc = "ready"
    /\ call' = [op |-> "set_percent", a |-> val, b |-> 0, cur |-> device.current]
    /\ Compute(set_percent_val(val, device.max), write_ok)
    /\ UNCHANGED <<displays, device_name, overflow_checks, selected>>

---------------------------------------------------------------------------
(* Command layer: Ddcci::lower, raise, set *)

lower_val(cur, max, by, min) ==
    LET step == ScaleToRaw(by, max)
        new_val == saturating_sub(cur, step.value)
        min_raw == ScaleToRaw(min, max)
    IN [overflow |-> step.overflow \/ min_raw.overflow,
        value |-> Max2(new_val, min_raw.value)]

\* curr + step cannot overflow: curr < 2^16 and step <= (2^32 + 49) / 100
raise_val(curr, max, by, min) ==
    LET step == ScaleToRaw(by, max)
        new_val == Min2(curr + step.value, max)
        min_raw == ScaleToRaw(min, max)
    IN [overflow |-> step.overflow \/ min_raw.overflow,
        value |-> Max2(new_val, min_raw.value)]

set_val(max, val, min) == ScaleToRaw(Max2(val, min), max)

Lower(by, min, write_ok) ==
    /\ pc = "ready"
    /\ call' = [op |-> "lower", a |-> by, b |-> min, cur |-> device.current]
    /\ Compute(lower_val(device.current, device.max, by, min), write_ok)
    /\ UNCHANGED <<displays, device_name, overflow_checks, selected>>

Raise(by, min, write_ok) ==
    /\ pc = "ready"
    /\ call' = [op |-> "raise", a |-> by, b |-> min, cur |-> device.current]
    /\ Compute(raise_val(device.current, device.max, by, min), write_ok)
    /\ UNCHANGED <<displays, device_name, overflow_checks, selected>>

Set(val, min, write_ok) ==
    /\ pc = "ready"
    /\ call' = [op |-> "set", a |-> val, b |-> min, cur |-> device.current]
    /\ Compute(set_val(device.max, val, min), write_ok)
    /\ UNCHANGED <<displays, device_name, overflow_checks, selected>>

---------------------------------------------------------------------------
(* Inputs *)

\* percentages a caller passes as `by`; 42949673 * 100 > u32::MAX
ByValues == {0, 10, 20, 150, 42949673}

\* percentages a caller passes as `val` to set
ValValues == {5, 100, 42949673}

\* percentages a caller passes as the floor `min`
MinValues == {0, 10, 30, 150}

\* raw values handed to set_raw
RawValues == {0, 60, 70000}

\* percentages handed to set_percent
PercentValues == {0, 50, 250}

---------------------------------------------------------------------------
(* Specifications *)

\* the state a successful try_new(None) leaves, the bus holding the one monitor m
ConstructedFrom(m) ==
    /\ overflow_checks \in BOOLEAN
    /\ displays = <<m>>
    /\ device_name = None
    /\ LET r == try_new(<<m>>, None)
       IN /\ r.result.kind = "Ok"
          /\ result = r.result
          /\ device = r.device
          /\ selected = r.selected
    /\ call = TryNewCall
    /\ vcp_write = "none"
    /\ pc = "ready"

\* Discovery: any enumeration of monitors, any requested name
InitDiscovery ==
    /\ overflow_checks \in BOOLEAN
    /\ displays \in SeqsUpTo(Monitors, MaxDisplays)
    /\ device_name \in RequestedNames
    /\ pc = "start"
    /\ device = NoDevice
    /\ result = NoResult
    /\ call = NoCall
    /\ selected = 0
    /\ vcp_write = "none"

NextDiscovery == TryNew \/ GetPercent

SpecDiscovery == InitDiscovery /\ [][NextDiscovery]_vars

\* A session: the state after a successful construction (try_new built the
\* device from the reply of the one monitor on the bus), then any sequence of calls
Init ==
    \E resp \in ProbeResponses : ConstructedFrom([model_name |-> None, probe |-> resp])

Next ==
    \/ \E by \in ByValues, min \in MinValues, write_ok \in BOOLEAN : Lower(by, min, write_ok)
    \/ \E by \in ByValues, min \in MinValues, write_ok \in BOOLEAN : Raise(by, min, write_ok)
    \/ \E val \in ValValues, min \in MinValues, write_ok \in BOOLEAN : Set(val, min, write_ok)
    \/ \E val \in RawValues, write_ok \in BOOLEAN : SetRaw(val, write_ok)
    \/ \E val \in PercentValues, write_ok \in BOOLEAN : SetPercent(val, write_ok)
    \/ GetPercent

Spec == Init /\ [][Next]_vars

\* Round trip through percent: a device with any max in 1..MaxRoundTrip and any
\* current in 0..max; get_percent, then set_percent of what it returned
InitRoundTrip ==
    \E max \in 1..MaxRoundTrip : \E r \in 0..max :
        ConstructedFrom([model_name |-> None,
                         probe |-> [ok |-> TRUE, value |-> r, maximum |-> max]])

SetPercentOfGetPercent ==
    /\ call.op = "get_percent"
    /\ result.kind = "Ok"
    /\ \E write_ok \in BOOLEAN : SetPercent(result.value, write_ok)

NextRoundTrip == GetPercent \/ SetPercentOfGetPercent

SpecRoundTrip == InitRoundTrip /\ [][NextRoundTrip]_vars

---------------------------------------------------------------------------
(* Discovery claims, checked under SpecDiscovery *)

Usable(i) == displays[i].probe.ok

FirstUsable(i) ==
    /\ i \in 1..Len(displays)
    /\ Usable(i)
    /\ \A j \in 1..(i - 1) : ~Usable(j)

Named(i) == displays[i].model_name = device_name

FirstNamed(i) ==
    /\ i \in 1..Len(displays)
    /\ Named(i)
    /\ \A j \in 1..(i - 1) : ~Named(j)

Constructed == pc \in {"ready", "aborted"}

\* C1: unnamed discovery returns the first monitor in discovery order whose probe
\* succeeds, with its probed value and maximum, skipping the earlier monitors
\* whose probe fails.
C1_UnnamedTakesFirstUsable ==
    (pc # "start" /\ device_name = None) =>
        \A i \in 1..Len(displays) :
            FirstUsable(i) =>
                /\ Constructed
                /\ selected = i
                /\ device.max = displays[i].probe.maximum
                /\ (pc = "ready" => device.current = displays[i].probe.value)

\* C2: unnamed discovery fails with DeviceDoesntExistError("N/A"), and with no
\* other error, whenever no enumerated monitor's probe succeeds (the enumeration
\* empty or not).
C2_UnnamedNoneUsableIsNA ==
    (pc # "start" /\ device_name = None /\ \A i \in 1..Len(displays) : ~Usable(i)) =>
        /\ pc = "failed"
        /\ result = DeviceDoesntExistError("N/A")

\* C3: named discovery fails with DeviceDoesntExistError carrying exactly the
\* requested name when no monitor has that model name and when the (first)
\* monitor of that name fails its probe; no other monitor is taken instead.
C3_NamedFailsWithRequestedName ==
    (/\ pc # "start"
     /\ device_name # None
     /\ \/ \A i \in 1..Len(displays) : ~Named(i)
        \/ \E i \in 1..Len(displays) : FirstNamed(i) /\ ~Usable(i)) =>
        /\ pc = "failed"
        /\ result = DeviceDoesntExistError(device_name[1])
        /\ selected = 0
        /\ device = NoDevice

\* C3's case: the named monitor fails its probe while another monitor is usable,
\* and try_new has failed with the requested name
C3_Witness ==
    /\ pc = "failed"
    /\ device_name = Some("A")
    /\ Len(displays) = 2
    /\ displays[1].model_name = Some("A") /\ ~Usable(1)
    /\ displays[2].model_name = Some("B") /\ Usable(2)
    /\ result = DeviceDoesntExistError("A")

\* C9: discovery never yields a device with max = 0, so get_percent never divides
\* by zero on a constructed device.
C9_ConstructedMaxPositive ==
    /\ Constructed => device.max > 0
    /\ call.op = "get_percent" => result.msg # "attempt to divide by zero"

\* C5: 0 <= current <= max in every state of a device, from its construction on.
C5_CurrentWithinBounds ==
    Constructed => (0 <= device.current /\ device.current <= device.max)

---------------------------------------------------------------------------
(* Command claims, checked under Spec *)

\* raw_from_percent(p, max) of spec 4.1, for p * max <= u32::MAX
raw_from_percent(p, max) == ScaleToRaw(p, max).value

\* p * max exceeds u32::MAX; raw_from_percent(p, max) is then at least
\* (2^32 - 50) / 100, above every u16 current or maximum
Beyond32Bits(p, max) == ScaleToRaw(p, max).overflow

Succeeded == result.kind = "Ok"

\* C4: after a successful raise, lower or set, current is at least
\* raw_from_percent(floor_percent, max), for every floor_percent (above 100 too).
C4_NeverBelowFloor ==
    (call.op \in {"raise", "lower", "set"} /\ Succeeded) =>
        device.current >= raw_from_percent(call.b, device.max)

\* C6: a failed protocol write is returned to the caller of raise / lower / set as
\* an error value, the process is not aborted, and current is unchanged.
C6_WriteFailureIsReturned ==
    (call.op \in {"raise", "lower", "set"} /\ vcp_write = "failed") =>
        /\ pc = "ready"
        /\ result.kind \notin {"Ok", "panic"}
        /\ device.current = call.cur

\* C7: raise never leaves current above max, and does not fail on its arithmetic,
\* for any by_percent and floor_percent, those whose product with max exceeds the
\* u32 range included.
C7_RaiseBoundedNoArithmeticFailure ==
    call.op = "raise" =>
        /\ Succeeded => device.current <= device.max
        /\ result.msg # "attempt to multiply with overflow"

\* C10: with step = raw_from_percent(by_percent, max) and floor_raw =
\* raw_from_percent(floor_percent, max): a successful raise with current + step <=
\* max and floor_raw <= current leaves current + step; a successful lower with step
\* <= current and floor_raw <= current - step leaves current - step; a successful
\* lower with step > current leaves what the floor makes of 0.
C10_ExactStep ==
    LET max == device.max
        cur == call.cur
        step == raw_from_percent(call.a, max)
        floor_raw == raw_from_percent(call.b, max)
        beyond == Beyond32Bits(call.a, max)
    IN /\ (/\ call.op = "raise" /\ Succeeded
           /\ ~beyond /\ cur + step <= max /\ floor_raw <= cur)
          => device.current = cur + step
       /\ (/\ call.op = "lower" /\ Succeeded
           /\ ~beyond /\ step <= cur /\ floor_raw <= cur - step)
          => device.current = cur - step
       /\ (/\ call.op = "lower" /\ Succeeded
           /\ (beyond \/ step > cur))
          => device.current = Min2(Max2(0, floor_raw), max)

---------------------------------------------------------------------------
(* What does hold of the commands under Spec (the parts of C4, C5 and C10 that
   the clamp of set_raw and the u32 product leave standing) *)

\* every successful write leaves current <= max
CurrentBoundedAfterWrite == vcp_write = "ok" => device.current <= device.max

\* a floor of at most 100 percent holds after raise and lower, and after set when
\* max(val, min) * max fits a u32
FloorHoldsWithinRange ==
    (/\ call.op \in {"raise", "lower", "set"} /\ Succeeded
     /\ call.b <= 100
     /\ call.op = "set" => ~Beyond32Bits(Max2(call.a, call.b), device.max))
    => device.current >= raw_from_percent(call.b, device.max)

\* the steps are exact when the device was within bounds and by * max fits a u32
ExactStepWithinRange ==
    (call.cur <= device.max /\ ~Beyond32Bits(call.a, device.max)) => C10_ExactStep

---------------------------------------------------------------------------
(* Round-trip claim, checked under SpecRoundTrip *)

Distance(a, b) == IF a >= b THEN a - b ELSE b - a

\* a set_percent of what get_percent returned has succeeded
RoundTripDone == call.op = "set_percent" /\ Succeeded

\* C8 as stated: for every max > 0 and every raw r in [0, max], set_percent of
\* get_percent leaves current within 1 of r.
C8_RoundTripWithinOne ==
    RoundTripDone => Distance(device.current, call.cur) <= 1

\* C8 amended: within 1 of r for every max in 1..300; for any max, within
\* floor((max + 100) / 200) of r.
C8_RoundTripWithinOneUpTo300 ==
    RoundTripDone =>
        /\ device.max <= 300 => Distance(device.current, call.cur) <= 1
        /\ Distance(device.current, call.cur) <= (device.max + 100) \div 200

\* C8's case: a round trip that moved current by exactly 1 (max = 300, r = 1)
C8_Witness ==
    /\ RoundTripDone
    /\ device.max = 300
    /\ call.cur = 1
    /\ device.current = 0

=============================================================================
